---- MODULE Spec2Model ----
(***************************************************************************)
(* The mpc-lookup service (src/src/mpclookup/handlers/external.py): the    *)
(* /search handler, which turns a designation into a redirect URL, and the *)
(* /synthetic_object handler, which renders the "synthetic object" page.   *)
(*                                                                         *)
(* A Python str is modelled as a sequence of one-character strings, so     *)
(* that str.replace, the "in" test, urlencode and urlparse(...).geturl()   *)
(* are computed character by character as the library computes them.       *)
(***************************************************************************)
EXTENDS Integers, Sequences, FiniteSets, TLC

(***************************************************************************)
(* Bounds of the model.                                                    *)
(***************************************************************************)
\* A designation is the concatenation of at most MaxTokens pieces of Tokens.
MaxTokens == 3
\* Number of concurrently served requests in SpecConc.
NumCalls == 2
\* A client gives up following redirects after MaxHops hops.
MaxHops == 3

(***************************************************************************)
(* String helpers.                                                         *)
(***************************************************************************)
\* s[i..] starts with p (Python: s.startswith(p, i-1)).
MatchAt(s, p, i) ==
    /\ i + Len(p) - 1 <= Len(s)
    /\ \A k \in 1..Len(p) : s[i + k - 1] = p[k]

\* Python: p in s.
Contains(s, p) == \E i \in 1..(Len(s) + 1) : MatchAt(s, p, i)

StartsWith(s, p) == MatchAt(s, p, 1)

\* s without its first n characters.
Drop(s, n) == SubSeq(s, n + 1, Len(s))

\* Index of the first character of s that is in chs, Len(s) + 1 if none.
FirstOf(s, chs) ==
    IF \E i \in 1..Len(s) : s[i] \in chs
    THEN CHOOSE i \in 1..Len(s) :
             /\ s[i] \in chs
             /\ \A j \in 1..(i - 1) : s[j] \notin chs
    ELSE Len(s) + 1

(***************************************************************************)
(* str.replace: line 82, designation.replace(_DESIGNATION_PREPEND, "").    *)
(***************************************************************************)
DESIGNATION_PREPEND == <<"2", "0", "1", "1", " ">>

\* CPython scans left to right; each match found is replaced and the scan
\* resumes after it, in the ORIGINAL string (one pass, no rescanning of the
\* result).
RECURSIVE ReplaceFrom(_, _, _, _)
ReplaceFrom(s, old, new, i) ==
    IF i > Len(s) THEN <<>>
    ELSE IF MatchAt(s, old, i)
         THEN new \o ReplaceFrom(s, old, new, i + Len(old))
         ELSE <<s[i]>> \o ReplaceFrom(s, old, new, i + 1)

\* A plausible slip: str.removeprefix, which strips at the start only.
RemovePrefixOnly(s, old, new) ==
    IF StartsWith(s, old) THEN new \o Drop(s, Len(old)) ELSE s

\* A plausible slip: str.replace(old, new, 1), the first occurrence only.
ReplaceFirstOnly(s, old, new) ==
    LET hits == {i \in 1..Len(s) : MatchAt(s, old, i)}
        i    == CHOOSE h \in hits : \A k \in hits : h <= k
    IN  IF hits = {} THEN s
        ELSE SubSeq(s, 1, i - 1) \o new \o Drop(s, i + Len(old) - 1)

StrReplace(s, old, new) == ReplaceFrom(s, old, new, 1)

\* A plausible slip: strip until no occurrence is left.
RECURSIVE StripUntilStable(_)
StripUntilStable(designation) ==
    IF Contains(designation, DESIGNATION_PREPEND)
    THEN StripUntilStable(StrReplace(designation, DESIGNATION_PREPEND, <<>>))
    ELSE designation

\* fd of line 82.
StripPrepend(designation) == StrReplace(designation, DESIGNATION_PREPEND, <<>>)

(***************************************************************************)
(* urllib.parse.urlencode({"designation": v}): line 93.  urlencode quotes  *)
(* key and value with quote_plus: the characters of ALWAYS_SAFE are kept,  *)
(* a space becomes "+", every other character becomes %XX.                 *)
(***************************************************************************)
ASCII_DIGITS == {"0", "1", "2", "3", "4", "5", "6", "7", "8", "9"}

ASCII_LETTERS ==
    {"a", "b", "c", "d", "e", "f", "g", "h", "i", "j", "k", "l", "m",
     "n", "o", "p", "q", "r", "s", "t", "u", "v", "w", "x", "y", "z",
     "A", "B", "C", "D", "E", "F", "G", "H", "I", "J", "K", "L", "M",
     "N", "O", "P", "Q", "R", "S", "T", "U", "V", "W", "X", "Y", "Z"}

ALWAYS_SAFE == ASCII_LETTERS \cup ASCII_DIGITS \cup {"_", ".", "-", "~"}

\* urllib.parse.scheme_chars
SCHEME_CHARS == ASCII_LETTERS \cup ASCII_DIGITS \cup {"+", "-", "."}

\* The %XX escapes of the reserved ASCII characters the model uses.
PercentCode ==
    [ch \in {"\t", "#", "%", "&", "+", "/", ":", "=", "?"} |->
        CASE ch = "\t" -> <<"%", "0", "9">>
          [] ch = "#"  -> <<"%", "2", "3">>
          [] ch = "%"  -> <<"%", "2", "5">>
          [] ch = "&"  -> <<"%", "2", "6">>
          [] ch = "+"  -> <<"%", "2", "B">>
          [] ch = "/"  -> <<"%", "2", "F">>
          [] ch = ":"  -> <<"%", "3", "A">>
          [] ch = "="  -> <<"%", "3", "D">>
          [] ch = "?"  -> <<"%", "3", "F">>]

\* A plausible slip: quote with safe="&+", which lets "&" and "+" through.
QuoteCharLax(ch) ==
    IF ch \in ALWAYS_SAFE \cup {"&", "+"} THEN <<ch>>
    ELSE IF ch = " " THEN <<"+">>
    ELSE PercentCode[ch]

QuoteChar(ch) ==
    IF ch \in ALWAYS_SAFE THEN <<ch>>
    ELSE IF ch = " " THEN <<"+">>
    ELSE PercentCode[ch]

RECURSIVE QuotePlus(_)
QuotePlus(s) ==
    IF s = <<>> THEN <<>> ELSE QuoteChar(Head(s)) \o QuotePlus(Tail(s))

DESIGNATION_KEY ==
    <<"d", "e", "s", "i", "g", "n", "a", "t", "i", "o", "n">>

Urlencode(key, value) == QuotePlus(key) \o <<"=">> \o QuotePlus(value)

(***************************************************************************)
(* urllib.parse.urlparse(url).geturl(): lines 84, 90 and 98.               *)
(* urlsplit drops leading C0 control characters and spaces, removes tab,   *)
(* CR and LF everywhere, then cuts scheme, netloc, fragment (at the first  *)
(* "#") and query (at the first "?"); urlunsplit puts them back, writing   *)
(* "?" and "#" only before a non-empty query or fragment.  The ";params"   *)
(* of urlparse live in the path, which here is a literal without ";".      *)
(***************************************************************************)
UNSAFE_URL_BYTES_TO_REMOVE == {"\t", "\r", "\n"}

WHATWG_C0_CONTROL_OR_SPACE == {"\t", "\r", "\n", " "}

RECURSIVE LStrip(_, _)
LStrip(s, chs) ==
    IF s # <<>> /\ Head(s) \in chs THEN LStrip(Tail(s), chs) ELSE s

Urlsplit(url) ==
    LET u0     == LStrip(url, WHATWG_C0_CONTROL_OR_SPACE)
        u      == SelectSeq(u0, LAMBDA ch : ch \notin UNSAFE_URL_BYTES_TO_REMOVE)
        colon  == FirstOf(u, {":"})
        isSch  == /\ colon > 1
                  /\ colon <= Len(u)
                  /\ u[1] \in ASCII_LETTERS
                  /\ \A i \in 1..(colon - 1) : u[i] \in SCHEME_CHARS
        scheme == IF isSch THEN SubSeq(u, 1, colon - 1) ELSE <<>>
        r1     == IF isSch THEN Drop(u, colon) ELSE u
        hasNl  == StartsWith(r1, <<"/", "/">>)
        r1b    == IF hasNl THEN Drop(r1, 2) ELSE r1
        nlEnd  == IF hasNl THEN FirstOf(r1b, {"/", "?", "#"}) ELSE 1
        netloc == SubSeq(r1b, 1, nlEnd - 1)
        r2     == Drop(r1b, nlEnd - 1)
        hash   == FirstOf(r2, {"#"})
        r3     == SubSeq(r2, 1, hash - 1)
        qm     == FirstOf(r3, {"?"})
    IN  [scheme   |-> scheme,
         netloc   |-> netloc,
         path     |-> SubSeq(r3, 1, qm - 1),
         query    |-> Drop(r3, qm),
         fragment |-> Drop(r2, hash)]

Urlunsplit(p) ==
    LET u1 == IF p.netloc # <<>>
              THEN <<"/", "/">> \o p.netloc
                   \o (IF p.path # <<>> /\ Head(p.path) # "/"
                       THEN <<"/">> ELSE <<>>)
                   \o p.path
              ELSE p.path
        u2 == IF p.scheme # <<>> THEN p.scheme \o <<":">> \o u1 ELSE u1
        u3 == IF p.query # <<>> THEN u2 \o <<"?">> \o p.query ELSE u2
    IN  IF p.fragment # <<>> THEN u3 \o <<"#">> \o p.fragment ELSE u3

\* urlparse(url).geturl()
Geturl(url) == Urlunsplit(Urlsplit(url))

(***************************************************************************)
(* The query string of a request as FastAPI hands it to a handler          *)
(* parameter declared "designation: Annotated[str, Query()]" (lines 62 and *)
(* 103): parse_qsl with keep_blank_values, the last value of the key wins, *)
(* a missing key is a validation error.                                    *)
(***************************************************************************)
RECURSIVE Split(_, _)
Split(s, sep) ==
    LET i == FirstOf(s, {sep})
    IN  IF i > Len(s) THEN <<s>>
        ELSE <<SubSeq(s, 1, i - 1)>> \o Split(Drop(s, i), sep)

RECURSIVE Unquote(_)
Unquote(s) ==
    IF s = <<>> THEN <<>>
    ELSE IF /\ Head(s) = "%"
            /\ Len(s) >= 3
            /\ \E ch \in DOMAIN PercentCode : PercentCode[ch] = SubSeq(s, 1, 3)
         THEN <<CHOOSE ch \in DOMAIN PercentCode :
                    PercentCode[ch] = SubSeq(s, 1, 3)>> \o Unquote(Drop(s, 3))
         ELSE <<Head(s)>> \o Unquote(Tail(s))

RECURSIVE PlusToSpace(_)
PlusToSpace(s) ==
    IF s = <<>> THEN <<>>
    ELSE <<IF Head(s) = "+" THEN " " ELSE Head(s)>> \o PlusToSpace(Tail(s))

UnquotePlus(s) == Unquote(PlusToSpace(s))

\* parse_qsl(query, keep_blank_values=True): the (name, value) pairs.
ParseQsl(query) ==
    LET fields == SelectSeq(Split(query, "&"), LAMBDA f : f # <<>>)
        Pair(f) == LET eq == FirstOf(f, {"="})
                   IN  <<UnquotePlus(SubSeq(f, 1, eq - 1)),
                         UnquotePlus(Drop(f, eq))>>
    IN  [i \in 1..Len(fields) |-> Pair(fields[i])]

\* The value bound to the handler parameter `key`.
QueryParam(query, key) ==
    LET pairs == ParseQsl(query)
        hits  == {i \in 1..Len(pairs) : pairs[i][1] = key}
    IN  IF hits = {} THEN [found |-> FALSE, value |-> <<>>]
        ELSE [found |-> TRUE,
              value |-> pairs[CHOOSE i \in hits : \A j \in hits : j <= i][2]]

(***************************************************************************)
(* The routes of external_router and the two URL templates.                *)
(***************************************************************************)
\* line 22
INDEX_PATH == <<"/">>

\* line 60
SEARCH_PATH == <<"/", "s", "e", "a", "r", "c", "h">>

\* line 101
SYNTHETIC_OBJECT_PATH ==
    <<"/", "s", "y", "n", "t", "h", "e", "t", "i", "c", "_", "o", "b", "j",
      "e", "c", "t">>

\* lines 85-86, up to the interpolated {fd}
MPC_SHOW_OBJECT ==
    <<"h", "t", "t", "p", "s", ":", "/", "/", "w", "w", "w", ".", "m", "i",
      "n", "o", "r", "p", "l", "a", "n", "e", "t", "c", "e", "n", "t", "e",
      "r", ".", "n", "e", "t", "/", "d", "b", "_", "s", "e", "a", "r", "c",
      "h", "/", "s", "h", "o", "w", "_", "o", "b", "j", "e", "c", "t", "?",
      "o", "b", "j", "e", "c", "t", "_", "i", "d", "=">>

\* request.url_for(name): the URL under which the router serves the route.
UrlFor(base, path) == base \o path

\* The handler that serves `url` for a client of the service at `base`.
Route(base, url) ==
    LET u == Urlsplit(url)
        b == Urlsplit(base)
    IN  IF u.scheme # b.scheme \/ u.netloc # b.netloc THEN "external"
        ELSE IF u.path = b.path \o SEARCH_PATH THEN "search"
        ELSE IF u.path = b.path \o SYNTHETIC_OBJECT_PATH
             THEN "get_synthetic_object"
        ELSE IF u.path = b.path \o INDEX_PATH THEN "get_index"
        ELSE "not_found"

(***************************************************************************)
(* search, lines 83-98: the redirect URL it returns.                       *)
(***************************************************************************)
\* lines 84-87
ExternalUrl(fd) == Geturl(MPC_SHOW_OBJECT \o fd)

\* A plausible slip: the stripped value in place of the original one.
SyntheticUrlOfValue(base, designation) ==
    Geturl(UrlFor(base, SYNTHETIC_OBJECT_PATH) \o <<"?">>
           \o Urlencode(DESIGNATION_KEY, StripPrepend(designation)))

\* A plausible slip: url_for("search") in place of "get_synthetic_object".
SyntheticUrlToSearch(base, designation) ==
    Geturl(UrlFor(base, SEARCH_PATH) \o <<"?">>
           \o Urlencode(DESIGNATION_KEY, designation))

\* lines 90-94
SyntheticUrl(base, designation) ==
    Geturl(UrlFor(base, SYNTHETIC_OBJECT_PATH) \o <<"?">>
           \o Urlencode(DESIGNATION_KEY, designation))

\* A plausible slip: " " in fd.strip(), which ignores spaces at the ends.
RECURSIVE RStrip(_, _)
RStrip(s, chs) ==
    IF s # <<>> /\ s[Len(s)] \in chs
    THEN RStrip(SubSeq(s, 1, Len(s) - 1), chs) ELSE s

HasInnerSpace(fd) ==
    Contains(RStrip(LStrip(fd, WHATWG_C0_CONTROL_OR_SPACE),
                    WHATWG_C0_CONTROL_OR_SPACE), <<" ">>)

\* line 83: " " in fd
HasSpace(fd) == Contains(fd, <<" ">>)

SearchRedirect(designation, fd, base) ==
    IF HasSpace(fd) THEN ExternalUrl(fd) ELSE SyntheticUrl(base, designation)

(***************************************************************************)
(* get_synthetic_object, lines 105-115: the page.                          *)
(***************************************************************************)
ContentHead ==
    <<"\n", " ", " ", " ", " ", " ", " ", " ", " ", "<", "h", "t", "m",
      "l", ">", "\n", " ", " ", " ", " ", " ", " ", " ", " ", " ", " ",
      " ", " ", "<", "b", "o", "d", "y", ">", "\n", " ", " ", " ", " ",
      " ", " ", " ", " ", " ", " ", " ", " ", " ", " ", " ", " ", "<", "p",
      ">">>

ContentTail ==
    <<" ", "a", "p", "p", "e", "a", "r", "s", " ", "t", "o", " ", "b", "e",
      " ", "a", " ", "s", "y", "n", "t", "h", "e", "t", "i", "c", " ", "o",
      "b", "j", "e", "c", "t", "\n", " ", " ", " ", " ", " ", " ", " ",
      " ", " ", " ", " ", " ", " ", " ", " ", " ", "f", "r", "o", "m", " ",
      "t", "h", "e", " ", "D", "P", "0", ".", "3", " ", "i", "n", "p", "u",
      "t", " ", "s", "i", "m", "u", "l", "a", "t", "i", "o", "n", ".", "<",
      "/", "p", ">", "\n", " ", " ", " ", " ", " ", " ", " ", " ", " ",
      " ", " ", " ", "<", "/", "b", "o", "d", "y", ">", "\n", " ", " ",
      " ", " ", " ", " ", " ", " ", "<", "/", "h", "t", "m", "l", ">",
      "\n", " ", " ", " ", " ", " ", " ", " ", " ">>

\* A plausible slip: html.escape(designation) in the page.
RECURSIVE HtmlEscape(_)
HtmlEscape(s) ==
    IF s = <<>> THEN <<>>
    ELSE (IF Head(s) = "&" THEN <<"&", "a", "m", "p", ";">> ELSE <<Head(s)>>)
         \o HtmlEscape(Tail(s))

EscapedContent(designation) ==
    ContentHead \o HtmlEscape(designation) \o ContentTail

SyntheticObjectContent(designation) ==
    ContentHead \o designation \o ContentTail

(***************************************************************************)
(* Inputs.                                                                 *)
(***************************************************************************)
\* The pieces designations are built from: the prefix, the two halves that
\* form it when joined, a word, and the characters that matter to the space
\* test, to urlencode and to urlparse.
Tokens ==
    {DESIGNATION_PREPEND, <<"2", "0">>, <<"1", "1", " ">>, <<"X">>, <<" ">>,
     <<"#">>, <<"\t">>, <<"+">>, <<"&">>, <<"%">>, <<"=">>, <<"?">>}

RECURSIVE Join(_)
Join(ts) == IF ts = <<>> THEN <<>> ELSE Head(ts) \o Join(Tail(ts))

Designations ==
    {Join(ts) : ts \in UNION {[1..n -> Tokens] : n \in 0..MaxTokens}}

\* The designations of the concurrent requests of SpecConc.
ConcDesignations ==
    {DESIGNATION_PREPEND \o <<"X", " ", "X">>,
     DESIGNATION_PREPEND \o <<"X">>,
     <<"X">>}

\* request.base_url plus the router's prefix, for two deployments.
Bases ==
    {<<"h", "t", "t", "p", ":", "/", "/", "h", "/", "m", "p", "c", "-", "l",
       "o", "o", "k", "u", "p">>,
     <<"h", "t", "t", "p", "s", ":", "/", "/", "h", ":", "8", "/", "m", "p",
       "c", "-", "l", "o", "o", "k", "u", "p">>}

(***************************************************************************)
(* State.  Every variable is a function of the call (one HTTP exchange of  *)
(* one client, redirects followed).                                        *)
(***************************************************************************)
VARIABLES
    pc,            \* where the call is: "request", "stripped" (search after
                   \* line 82), "redirected" (search has returned), "page",
                   \* "external" (the client left for the MPC host), "error"
    designation,   \* the designation the client asks about
    base,          \* the URL the client reaches the service under
    arg,           \* the handler's `designation` parameter
    fd,            \* search's local fd
    redirect_url,  \* search's local redirect_url, as returned
    status,        \* HTTP status of the last response (0: none yet)
    content,       \* body of the last HTML response
    hops,          \* same-origin redirects followed in this exchange
    returned       \* every URL search has returned to this call

vars == <<pc, designation, base, arg, fd, redirect_url, status, content,
          hops, returned>>

Calls == DOMAIN pc

InitCalls(calls, inputs) ==
    /\ designation \in [calls -> inputs]
    /\ base \in [calls -> Bases]
    /\ pc = [c \in calls |-> "request"]
    /\ arg = [c \in calls |-> <<>>]
    /\ fd = [c \in calls |-> <<>>]
    /\ redirect_url = [c \in calls |-> <<>>]
    /\ status = [c \in calls |-> 0]
    /\ content = [c \in calls |-> <<>>]
    /\ hops = [c \in calls |-> 0]
    /\ returned = [c \in calls |-> {}]

Init == InitCalls({1}, Designations)

InitConc == InitCalls(1..NumCalls, ConcDesignations)

\* A plausible slip: a module-level variable, shared by all calls.
AssignGlobal(f, c, v) == [k \in DOMAIN f |-> v]

\* Assignment to a local variable of the call c.
AssignLocal(f, c, v) == [f EXCEPT ![c] = v]

\* search, lines 81-82.
SearchStrip(c) ==
    /\ pc[c] = "request"
    /\ arg' = AssignLocal(arg, c, designation[c])
    /\ fd' = AssignLocal(fd, c, StripPrepend(designation[c]))
    /\ pc' = [pc EXCEPT ![c] = "stripped"]
    /\ UNCHANGED <<designation, base, redirect_url, status, content, hops,
                   returned>>

\* search, lines 83-98, and the RedirectResponse of line 60.
SearchRespond(c) ==
    /\ pc[c] = "stripped"
    /\ LET url == SearchRedirect(arg[c], fd[c], base[c])
       IN  /\ redirect_url' = AssignLocal(redirect_url, c, url)
           /\ returned' = [returned EXCEPT ![c] = @ \cup {url}]
    /\ status' = [status EXCEPT ![c] = 307]
    /\ pc' = [pc EXCEPT ![c] = "redirected"]
    /\ UNCHANGED <<designation, base, arg, fd, content, hops>>

\* get_synthetic_object, lines 101-115, requested directly.
GetSyntheticObject(c) ==
    /\ pc[c] = "request"
    /\ arg' = AssignLocal(arg, c, designation[c])
    /\ content' = [content EXCEPT ![c] = SyntheticObjectContent(designation[c])]
    /\ status' = [status EXCEPT ![c] = 200]
    /\ pc' = [pc EXCEPT ![c] = "page"]
    /\ UNCHANGED <<designation, base, fd, redirect_url, hops, returned>>

\* The client follows the redirect: the router dispatches the URL to the
\* handler that serves it, with the designation of its query string.
FollowRedirect(c) ==
    /\ pc[c] = "redirected"
    /\ hops[c] < MaxHops
    /\ LET target == Route(base[c], redirect_url[c])
           q      == QueryParam(Urlsplit(redirect_url[c]).query,
                                DESIGNATION_KEY)
       IN  IF target = "external"
           THEN /\ pc' = [pc EXCEPT ![c] = "external"]
                /\ UNCHANGED <<arg, fd, status, content, hops>>
           ELSE IF target = "get_synthetic_object" /\ q.found
           THEN /\ pc' = [pc EXCEPT ![c] = "page"]
                /\ arg' = AssignLocal(arg, c, q.value)
                /\ content' =
                       [content EXCEPT ![c] = SyntheticObjectContent(q.value)]
                /\ status' = [status EXCEPT ![c] = 200]
                /\ hops' = [hops EXCEPT ![c] = @ + 1]
                /\ UNCHANGED fd
           ELSE IF target = "search" /\ q.found
           THEN /\ pc' = [pc EXCEPT ![c] = "stripped"]
                /\ arg' = AssignLocal(arg, c, q.value)
                /\ fd' = AssignLocal(fd, c, StripPrepend(q.value))
                /\ hops' = [hops EXCEPT ![c] = @ + 1]
                /\ UNCHANGED <<status, content>>
           ELSE /\ pc' = [pc EXCEPT ![c] = "error"]
                /\ status' = [status EXCEPT ![c] =
                                 IF target = "not_found" THEN 404 ELSE 422]
                /\ hops' = [hops EXCEPT ![c] = @ + 1]
                /\ UNCHANGED <<arg, fd, content>>
    /\ UNCHANGED <<designation, base, redirect_url, returned>>

\* The client sends the same request again.
Retry(c) ==
    /\ pc[c] \in {"page", "external", "error"}
    /\ pc' = [pc EXCEPT ![c] = "request"]
    /\ arg' = [arg EXCEPT ![c] = <<>>]
    /\ fd' = [fd EXCEPT ![c] = <<>>]
    /\ redirect_url' = [redirect_url EXCEPT ![c] = <<>>]
    /\ status' = [status EXCEPT ![c] = 0]
    /\ content' = [content EXCEPT ![c] = <<>>]
    /\ hops' = [hops EXCEPT ![c] = 0]
    /\ UNCHANGED <<designation, base, returned>>

Next ==
    \/ \E c \in Calls : SearchStrip(c)
    \/ \E c \in Calls : SearchRespond(c)
    \/ \E c \in Calls : GetSyntheticObject(c)
    \/ \E c \in Calls : FollowRedirect(c)
    \/ \E c \in Calls : Retry(c)

\* One client at a time, over every designation.
Spec == Init /\ [][Next]_vars

\* NumCalls clients whose requests are served interleaved.
SpecConc == InitConc /\ [][Next]_vars

(***************************************************************************)
(* What the claims speak about, stated without the handlers' own code.     *)
(***************************************************************************)
\* Where "2011 " occurs in s.  No two occurrences overlap: no proper prefix
\* of "2011 " is a suffix of it.
PrependStarts(s) == {i \in 1..Len(s) : MatchAt(s, DESIGNATION_PREPEND, i)}

\* s without the characters of its occurrences of "2011 ".
WithoutPrepend(s) ==
    LET kept   == {i \in 1..Len(s) :
                      ~ \E o \in PrependStarts(s) :
                            o <= i /\ i < o + Len(DESIGNATION_PREPEND)}
        Nth(k) == CHOOSE i \in kept : Cardinality({j \in kept : j < i}) = k - 1
    IN  [k \in 1..Cardinality(kept) |-> s[Nth(k)]]

\* The places of WithoutPrepend(s) where an occurrence was cut out: a join g
\* lies between its characters g and g + 1.
Joins(s) ==
    {o - 1 - Len(DESIGNATION_PREPEND) * Cardinality({p \in PrependStarts(s) : p < o}) :
         o \in PrependStarts(s)}

WhitespaceOnly(s) == s # <<>> /\ \A i \in 1..Len(s) : s[i] \in {" ", "\t"}

IsExternalShape(url) == StartsWith(url, MPC_SHOW_OBJECT)

SyntheticPrefix(b) ==
    b \o SYNTHETIC_OBJECT_PATH \o <<"?">> \o DESIGNATION_KEY \o <<"=">>

IsSyntheticShape(url, b) == StartsWith(url, SyntheticPrefix(b))

\* search has returned to call c, which asked it directly.
Searched(c) == pc[c] = "redirected" /\ hops[c] = 0

(***************************************************************************)
(* The prefix strip (line 82).                                             *)
(***************************************************************************)
\* C4: the stripped value is the designation with "2011 " removed wherever
\* it occurs, not only at the start ("X2011 X" strips to "XX"), and a
\* designation without "2011 " is left unchanged.
C4_StripAnywhere ==
    \A c \in Calls :
        pc[c] = "stripped" =>
            /\ fd[c] = WithoutPrepend(arg[c])
            /\ (PrependStarts(arg[c]) = {} => fd[c] = arg[c])

C4_Witness ==
    \E c \in Calls :
        /\ pc[c] = "stripped"
        /\ arg[c] = <<"X">> \o DESIGNATION_PREPEND \o <<"X">>
        /\ fd[c] = <<"X", "X">>

\* C9 as claimed: the stripped value never contains "2011 ", so that a
\* second strip changes nothing.
C9_StripLeavesNoPrepend ==
    \A c \in Calls :
        pc[c] = "stripped" =>
            /\ ~ Contains(fd[c], DESIGNATION_PREPEND)
            /\ StripPrepend(fd[c]) = fd[c]

\* C9 as amended: the strip is one pass over the designation.  "2011 " is
\* found in the stripped value only across a join, where the text before a
\* removed occurrence meets the text after it; a stripped value without
\* "2011 " is a fixed point of the strip; and the prefix "2011 " followed by
\* text without "2011 " strips to that text.
C9_StripIsOnePass ==
    \A c \in Calls :
        pc[c] = "stripped" =>
            /\ \A j \in PrependStarts(fd[c]) :
                   \E g \in Joins(arg[c]) :
                       j <= g /\ g < j + Len(DESIGNATION_PREPEND) - 1
            /\ (PrependStarts(fd[c]) = {} => StripPrepend(fd[c]) = fd[c])
            /\ (/\ StartsWith(arg[c], DESIGNATION_PREPEND)
                /\ PrependStarts(Drop(arg[c], Len(DESIGNATION_PREPEND))) = {}
                => /\ fd[c] = Drop(arg[c], Len(DESIGNATION_PREPEND))
                   /\ PrependStarts(fd[c]) = {})

\* "202011 11 " strips to "2011 ".
C9_Witness ==
    \E c \in Calls :
        /\ pc[c] = "stripped"
        /\ arg[c] = <<"2", "0">> \o DESIGNATION_PREPEND \o <<"1", "1", " ">>
        /\ fd[c] = DESIGNATION_PREPEND
        /\ Joins(arg[c]) = {2}

(***************************************************************************)
(* The redirect search returns (lines 83-98).                              *)
(***************************************************************************)
\* C1 as claimed: when the value left after removing "2011 " contains a
\* space, search returns the show_object URL whose object_id is that value
\* (written as it is, or URL-encoded), and not the synthetic-object URL.
C1_ExternalUrlCarriesStrippedValue ==
    \A c \in Calls :
        LET v == WithoutPrepend(designation[c])
        IN  Searched(c) /\ Contains(v, <<" ">>) =>
                /\ redirect_url[c] \in {MPC_SHOW_OBJECT \o v,
                                        MPC_SHOW_OBJECT \o QuotePlus(v)}
                /\ ~ IsSyntheticShape(redirect_url[c], base[c])

\* C2: when the value left after removing "2011 " contains no space, search
\* returns the service's own /synthetic_object URL, whose designation
\* parameter is the URL-encoded ORIGINAL designation (it decodes to it, and
\* holds only unreserved characters, "+" and %XX escapes), and not the
\* show_object URL.
C2_SyntheticUrlCarriesOriginal ==
    \A c \in Calls :
        Searched(c) /\ ~ Contains(WithoutPrepend(designation[c]), <<" ">>) =>
            LET value == Drop(redirect_url[c], Len(SyntheticPrefix(base[c])))
            IN  /\ IsSyntheticShape(redirect_url[c], base[c])
                /\ UnquotePlus(value) = designation[c]
                /\ \A i \in 1..Len(value) :
                       value[i] \in ALWAYS_SAFE \cup {"+", "%"}
                /\ ~ IsExternalShape(redirect_url[c])

\* "2011 X" yields designation=2011+X.
C2_Witness ==
    \E c \in Calls :
        /\ Searched(c)
        /\ designation[c] = DESIGNATION_PREPEND \o <<"X">>
        /\ redirect_url[c] = SyntheticPrefix(base[c])
                                 \o <<"2", "0", "1", "1", "+", "X">>

\* C3 as claimed: in the external branch the stripped value is URL-encoded
\* into object_id, so that the returned URL holds "+" for each of its
\* spaces and no raw space.
C3_ExternalUrlIsEncoded ==
    \A c \in Calls :
        Searched(c) /\ HasSpace(fd[c]) =>
            /\ redirect_url[c] = MPC_SHOW_OBJECT \o QuotePlus(fd[c])
            /\ ~ Contains(redirect_url[c], <<" ">>)

\* C5: for a non-empty designation no call of search ends in an error, and
\* what search returns is one URL, a 307 redirect, of exactly one of the two
\* shapes.
C5_SearchIsTotal ==
    \A c \in Calls :
        designation[c] # <<>> =>
            /\ pc[c] # "error"
            /\ (Searched(c) =>
                    /\ status[c] = 307
                    /\ returned[c] = {redirect_url[c]}
                    /\ IsExternalShape(redirect_url[c])
                           # IsSyntheticShape(redirect_url[c], base[c]))

\* Both shapes are returned, here the external one.
C5_Witness ==
    \E c \in Calls :
        /\ Searched(c)
        /\ designation[c] = <<"X", " ", "X">>
        /\ IsExternalShape(redirect_url[c])
        /\ returned[c] = {redirect_url[c]}

\* C6 as claimed: an empty or whitespace-only designation strips to a value
\* without a space and is sent to the synthetic-object page.
C6_BlankIsSynthetic ==
    \A c \in Calls :
        Searched(c) /\ (designation[c] = <<>> \/ WhitespaceOnly(designation[c]))
            => /\ ~ HasSpace(fd[c])
               /\ IsSyntheticShape(redirect_url[c], base[c])

\* C6 as amended: the empty designation strips to the empty string and is
\* sent to the synthetic-object page; a whitespace-only designation is left
\* as it is by the strip, and is sent to the external database when it holds
\* a space, to the synthetic-object page when it holds none (tabs only).
C6_BlankBySpace ==
    \A c \in Calls :
        Searched(c) =>
            /\ (designation[c] = <<>> =>
                    /\ fd[c] = <<>>
                    /\ redirect_url[c] = SyntheticPrefix(base[c]))
            /\ (WhitespaceOnly(designation[c]) =>
                    /\ fd[c] = designation[c]
                    /\ IF Contains(designation[c], <<" ">>)
                       THEN IsExternalShape(redirect_url[c])
                       ELSE IsSyntheticShape(redirect_url[c], base[c]))

\* " " is sent to the external database.
C6_Witness ==
    \E c \in Calls :
        /\ Searched(c)
        /\ designation[c] = <<" ">>
        /\ fd[c] = <<" ">>
        /\ IsExternalShape(redirect_url[c])

(***************************************************************************)
(* Calls do not share state.                                               *)
(***************************************************************************)
\* C7: whatever calls ran before or are served in between, all the URLs
\* search ever returns for one designation under one base URL are the same
\* URL.
C7_SameInputSameUrl ==
    \A c1, c2 \in Calls :
        designation[c1] = designation[c2] /\ base[c1] = base[c2] =>
            Cardinality(returned[c1] \cup returned[c2]) <= 1

\* Two calls with the same input have both been answered, one of them for
\* the second time.
C7_Witness ==
    \E c1, c2 \in Calls :
        /\ c1 # c2
        /\ designation[c1] = designation[c2]
        /\ base[c1] = base[c2]
        /\ returned[c1] # {}
        /\ pc[c1] = "stripped"
        /\ pc[c2] = "redirected"

(***************************************************************************)
(* The synthetic-object page (lines 101-115) and the redirect to it.       *)
(***************************************************************************)
SYNTHETIC_OBJECT_PHRASE ==
    <<"s", "y", "n", "t", "h", "e", "t", "i", "c", " ", "o", "b", "j", "e",
      "c", "t">>

\* C8: the page is a 200 response whose body holds the designation it was
\* asked about, character for character, and the words "synthetic object";
\* asked directly, it is about the client's designation and no redirect was
\* issued.
C8_PageShowsDesignation ==
    \A c \in Calls :
        pc[c] = "page" =>
            /\ status[c] = 200
            /\ Contains(content[c], arg[c])
            /\ Contains(content[c], SYNTHETIC_OBJECT_PHRASE)
            /\ (hops[c] = 0 =>
                    arg[c] = designation[c] /\ redirect_url[c] = <<>>)

C8_Witness ==
    \E c \in Calls :
        /\ pc[c] = "page"
        /\ hops[c] = 0
        /\ designation[c] = <<"&", "X", "#">>
        /\ Contains(content[c], <<">", "&", "X", "#", " ", "a">>)

\* C10: a redirect of search never leads back to search: it leads out of the
\* service or to the synthetic-object page, which is reached after one hop,
\* answers 200 and is about the designation search was asked about.
C10_OneHopToPage ==
    \A c \in Calls :
        /\ hops[c] <= 1
        /\ pc[c] # "error"
        /\ (pc[c] = "redirected" =>
                Route(base[c], redirect_url[c])
                    \in {"external", "get_synthetic_object"})
        /\ (pc[c] = "stripped" => hops[c] = 0)
        /\ (pc[c] = "page" /\ hops[c] = 1 =>
                /\ status[c] = 200
                /\ arg[c] = designation[c])

C10_Witness ==
    \E c \in Calls :
        /\ pc[c] = "page"
        /\ hops[c] = 1
        /\ designation[c] = DESIGNATION_PREPEND \o <<"&", "+">>
        /\ arg[c] = designation[c]

====
